---- MODULE Spec2Model ----
(***************************************************************************)
(* Model of game/common.py: the Inventory of a character (equipment slots  *)
(* and a backpack Counter) with its equip / unequip / add / remove / use   *)
(* operations, Character.hit, the resolution of a DamageInstance,          *)
(* Stats.modify, Character.update_stats and move_toward; and of the main   *)
(* loop of game/main.py.  Each part has its own specification: Spec,       *)
(* SpecHit, SpecModify, SpecUpdate, SpecMove, SpecLoop.                    *)
(*                                                                         *)
(* The game is single threaded: every call runs to completion, so each     *)
(* call is one action.  A call that raises is an action too: it records    *)
(* the error and leaves the state the way the raise left it.               *)
(***************************************************************************)
EXTENDS Integers, FiniteSets, Sequences, TLC

VARIABLES
    equipment,  \* Inventory.equipment: slot name -> Item or None
    backpack,   \* Inventory.backpack: Counter, Item -> count (0 when absent)
    pre,        \* the inventory as it was when the last call started
    call,       \* the last Inventory call: operation, arguments, outcome
    trip,       \* an add(item, n) and whether remove(item, n) was the next call
    char,       \* the current Character snapshot
    old_char,   \* the snapshot the last hit was called on
    attack,     \* the DamageInstance of the last hit (damage in halves)
    dealt,      \* the damage_taken the last hit returned
    mod,        \* a Stats sheet and the chain of Stats.modify calls that made it
    upd,        \* the outcome of the last Character.update_stats call
    mv,         \* a value moved toward a target by move_toward
    loop        \* the main loop: position, pending events, frame counter

vars == <<equipment, backpack, pre, call, trip, char, old_char, attack, dealt,
          mod, upd, mv, loop>>
invVars == <<equipment, backpack, pre, call, trip>>
charVars == <<char, old_char, attack, dealt>>

----------------------------------------------------------------------------
(* Bounds *)

\* most units the inventory holds, all items together (backpack plus equipped)
MaxUnits == 3
\* largest count argument passed to add / remove
MaxArg == 2
\* largest base max_health of a character
MaxMaxHealth == 3
\* largest damage (and largest healing) of one DamageInstance
MaxDamage == 4
\* largest value of a field of a Stats sheet
MaxStat == 1
\* largest distance between the value and the target of move_toward
MaxDist == 3
\* largest step of move_toward
MaxStep == 4
\* most frames counted before the FPS counter is refreshed
MaxFrames == 3

----------------------------------------------------------------------------
(* Items and slots *)

None == "None"

\* the items of Inventory._test
Items == {"item1", "item2", "item3"}

tags == [i \in Items |-> IF i = "item2" THEN {"item"} ELSE {"item", "equippable"}]

slots == {"mainhand", "offhand", "head", "body", "feet"}

\* slot names a caller may pass: the five slots and one that does not exist
SlotArgs == slots \cup {"tail"}

\* count arguments a caller may pass; -1 trips the assert
CountArgs == -1 .. MaxArg

\* results of a call: "ok", or the ValueError / AssertionError it raised
Ok(inv) == [equipment |-> inv.equipment, backpack |-> inv.backpack, err |-> "ok"]
Raise(inv, e) == [equipment |-> inv.equipment, backpack |-> inv.backpack, err |-> e]

Inv == [equipment |-> equipment, backpack |-> backpack]

\* Inventory.new
Inventory_new == [equipment |-> [s \in slots |-> None], backpack |-> [i \in Items |-> 0]]

----------------------------------------------------------------------------
(* Inventory operations, as functions of the inventory they are called on *)

\* add that ignores count and adds one unit
add_One(inv, item, count) ==
    IF ~(count >= 0)
    THEN Raise(inv, "AssertionError")
    ELSE Ok([inv EXCEPT !.backpack[item] = @ + 1])

add(inv, item, count) ==
    IF ~(count >= 0)
    THEN Raise(inv, "AssertionError")
    ELSE Ok([inv EXCEPT !.backpack[item] = @ + count])

\* remove without the quantity check
remove_NoCheck(inv, item, count) ==
    IF ~(count >= 0)
    THEN Raise(inv, "AssertionError")
    ELSE Ok([inv EXCEPT !.backpack[item] = @ - count])

\* remove that also refuses to take the last units (<= for <)
remove_OffByOne(inv, item, count) ==
    IF ~(count >= 0)
    THEN Raise(inv, "AssertionError")
    ELSE IF inv.backpack[item] <= count
         THEN Raise(inv, "NotEnough")
         ELSE Ok([inv EXCEPT !.backpack[item] = @ - count])

remove(inv, item, count) ==
    IF ~(count >= 0)
    THEN Raise(inv, "AssertionError")
    ELSE IF inv.backpack[item] < count
         THEN Raise(inv, "NotEnough")
         ELSE Ok([inv EXCEPT !.backpack[item] = @ - count])

\* unequip that clears the slot and forgets to put the item back
unequip_NoAdd(inv, slot) ==
    IF ~(slot \in slots)
    THEN Raise(inv, "NoSuchSlot")
    ELSE IF inv.equipment[slot] = None
         THEN Raise(inv, "SlotEmpty")
         ELSE Ok([inv EXCEPT !.equipment[slot] = None])

\* unequip that puts the item back and forgets to clear the slot
unequip_NoClear(inv, slot) ==
    IF ~(slot \in slots)
    THEN Raise(inv, "NoSuchSlot")
    ELSE IF inv.equipment[slot] = None
         THEN Raise(inv, "SlotEmpty")
         ELSE add(inv, inv.equipment[slot], 1)

unequip(inv, slot) ==
    IF ~(slot \in slots)
    THEN Raise(inv, "NoSuchSlot")
    ELSE IF inv.equipment[slot] = None
         THEN Raise(inv, "SlotEmpty")
         ELSE LET item == inv.equipment[slot]
                  cleared == [inv EXCEPT !.equipment[slot] = None]
              IN  add(cleared, item, 1)

\* equip without the hot swap: the item in the slot is overwritten
equip_NoSwap(inv, slot, item) ==
    IF ~("equippable" \in tags[item])
    THEN Raise(inv, "NotEquippable")
    ELSE IF ~(slot \in slots)
         THEN Raise(inv, "NoSuchSlot")
         ELSE LET removed == remove(inv, item, 1)
              IN  IF removed.err # "ok"
                  THEN removed
                  ELSE Ok([removed EXCEPT !.equipment[slot] = item])

\* equip without the "equippable" check
equip_NoTagCheck(inv, slot, item) ==
    IF ~(slot \in slots)
    THEN Raise(inv, "NoSuchSlot")
    ELSE LET swapped == IF inv.equipment[slot] # None
                        THEN unequip(inv, slot)
                        ELSE Ok(inv)
             removed == remove(swapped, item, 1)
         IN  IF removed.err # "ok"
             THEN removed
             ELSE Ok([removed EXCEPT !.equipment[slot] = item])

equip(inv, slot, item) ==
    IF ~("equippable" \in tags[item])
    THEN Raise(inv, "NotEquippable")
    ELSE IF ~(slot \in slots)
         THEN Raise(inv, "NoSuchSlot")
         ELSE LET swapped == IF inv.equipment[slot] # None
                             THEN unequip(inv, slot)
                             ELSE Ok(inv)
                  removed == remove(swapped, item, 1)
              IN  IF swapped.err # "ok"
                  THEN swapped
                  ELSE IF removed.err # "ok"
                       THEN removed
                       ELSE Ok([removed EXCEPT !.equipment[slot] = item])

use(inv, item) ==
    IF inv.backpack[item] > 0
    THEN remove(inv, item, 1)
    ELSE Raise(inv, "NotAny")

----------------------------------------------------------------------------
(* Stats and Character: NamedTuples whose fields default to None.  A field *)
(* is modelled as a set: Unset (None) or Val(x), so that "is None" can be  *)
(* asked of a field of any type.                                           *)

Unset == {}
Val(x) == {x}
Get(field) == CHOOSE x \in field : TRUE

StatFields == {"max_health", "max_stamina", "max_mana", "strength", "agility",
               "acumen", "armor", "magical_resistance"}

CharFields == {"name", "sprite_sheet", "is_player", "is_alive", "base", "bonuses",
               "current", "health", "stamina", "mana", "inventory", "actions",
               "effects"}

\* Stats(max_health, 16, 4, 8, 6, 4, 2, 4): the sheet of Character._test with
\* the given max_health
StatsOf(max_health) ==
    [max_health |-> Val(max_health), max_stamina |-> Val(16), max_mana |-> Val(4),
     strength |-> Val(8), agility |-> Val(6), acumen |-> Val(4), armor |-> Val(2),
     magical_resistance |-> Val(4)]

\* Character(**given): every field not given is None
Character(given) ==
    [f \in CharFields |-> IF f \in DOMAIN given THEN Val(given[f]) ELSE Unset]

Character_new(name, sprite_sheet, is_player, base_stats, actions, initial_effects) ==
    [name |-> Val(name),
     sprite_sheet |-> Val(sprite_sheet),
     is_player |-> Val(is_player),
     is_alive |-> Val(TRUE),
     base |-> Val(base_stats),
     bonuses |-> Val(<<>>),
     current |-> Val(base_stats),
     health |-> base_stats.max_health,
     stamina |-> base_stats.max_stamina,
     mana |-> base_stats.max_mana,
     inventory |-> Val(Inventory_new),
     actions |-> Val(actions),
     effects |-> Val(initial_effects)]

Character_modify(self, changes) ==
    [f \in CharFields |-> IF changes[f] = Unset THEN self[f] ELSE changes[f]]

\* int(x) as floor(x)
int_Floor(halves) == halves \div 2

\* int(x) of a float x given in halves: truncation toward zero
int(halves) == IF halves >= 0 THEN halves \div 2 ELSE -((-halves) \div 2)

\* DamageInstance(damage, damage_type, effects), damage in halves
DamageInstance(damage, damage_type, effects) ==
    [damage |-> damage, damage_type |-> damage_type, effects |-> effects]

\* hit that recomputes is_alive from the new health
hit_Revive(self, atk) ==
    LET damage_taken == int(atk.damage)
        health0 == Get(self.health) - damage_taken
        dead == health0 <= 0
        health1 == IF dead THEN 0 ELSE health0
        is_alive == ~dead
        max_health == Get(Get(self.current).max_health)
        health == IF health1 > max_health THEN max_health ELSE health1
    IN  [character |-> Character_modify(self,
                          Character([health |-> health, is_alive |-> is_alive])),
         damage_taken |-> damage_taken]

\* hit without the max_health clamp
hit_NoCap(self, atk) ==
    LET damage_taken == int(atk.damage)
        health0 == Get(self.health) - damage_taken
        dead == health0 <= 0
        health1 == IF dead THEN 0 ELSE health0
        is_alive == IF dead THEN FALSE ELSE Get(self.is_alive)
        max_health == Get(Get(self.current).max_health)
        health == health1
    IN  [character |-> Character_modify(self,
                          Character([health |-> health, is_alive |-> is_alive])),
         damage_taken |-> damage_taken]

\* hit that returns the bare changes instead of self.modify(changes)
hit_NoModify(self, atk) ==
    LET damage_taken == int(atk.damage)
        health0 == Get(self.health) - damage_taken
        dead == health0 <= 0
        health1 == IF dead THEN 0 ELSE health0
        is_alive == IF dead THEN FALSE ELSE Get(self.is_alive)
        max_health == Get(Get(self.current).max_health)
        health == IF health1 > max_health THEN max_health ELSE health1
    IN  [character |-> Character([health |-> health, is_alive |-> is_alive]),
         damage_taken |-> damage_taken]

\* hit that leaves the health of a dead character at 0
hit_DeadStaysDown(self, atk) ==
    LET damage_taken == int(atk.damage)
        health0 == Get(self.health) - damage_taken
        dead == health0 <= 0
        health1 == IF dead THEN 0 ELSE health0
        is_alive == IF dead THEN FALSE ELSE Get(self.is_alive)
        max_health == Get(Get(self.current).max_health)
        health == IF ~is_alive THEN 0
                  ELSE IF health1 > max_health THEN max_health ELSE health1
    IN  [character |-> Character_modify(self,
                          Character([health |-> health, is_alive |-> is_alive])),
         damage_taken |-> damage_taken]

\* hit that kills only below zero (< for <=)
hit_StrictKill(self, atk) ==
    LET damage_taken == int(atk.damage)
        health0 == Get(self.health) - damage_taken
        dead == health0 < 0
        health1 == IF dead THEN 0 ELSE health0
        is_alive == IF dead THEN FALSE ELSE Get(self.is_alive)
        max_health == Get(Get(self.current).max_health)
        health == IF health1 > max_health THEN max_health ELSE health1
    IN  [character |-> Character_modify(self,
                          Character([health |-> health, is_alive |-> is_alive])),
         damage_taken |-> damage_taken]

hit(self, atk) ==
    LET damage_taken == int(atk.damage)
        health0 == Get(self.health) - damage_taken
        dead == health0 <= 0
        health1 == IF dead THEN 0 ELSE health0
        is_alive == IF dead THEN FALSE ELSE Get(self.is_alive)
        max_health == Get(Get(self.current).max_health)
        health == IF health1 > max_health THEN max_health ELSE health1
    IN  [character |-> Character_modify(self,
                          Character([health |-> health, is_alive |-> is_alive])),
         damage_taken |-> damage_taken]

----------------------------------------------------------------------------
(* The calls *)

Units(inv, item) ==
    inv.backpack[item] + Cardinality({s \in slots : inv.equipment[s] = item})

NoCall == [op |-> "new", slot |-> None, item |-> None, count |-> 0, err |-> "ok"]

NoTrip == [phase |-> "none", item |-> None, count |-> 0, start |-> Inventory_new]

\* The pair of calls add(item, n); remove(item, n): "added" after an add with
\* n >= 0, "removed" when the very next call is remove of the same item and
\* count; start is the inventory the add was called on.
Trip(op, item, count) ==
    IF op = "add" /\ count >= 0
    THEN [phase |-> "added", item |-> item, count |-> count, start |-> Inv]
    ELSE IF op = "remove" /\ trip.phase = "added" /\ trip.item = item
                          /\ trip.count = count
         THEN [trip EXCEPT !.phase = "removed"]
         ELSE NoTrip

RECURSIVE Sum(_, _)
Sum(f, S) == IF S = {} THEN 0 ELSE LET x == CHOOSE y \in S : TRUE
                                   IN  f[x] + Sum(f, S \ {x})

\* units held, all items together
Held(inv) == Sum([i \in Items |-> Units(inv, i)], Items)

Called(op, slot, item, count, r) ==
    /\ equipment' = r.equipment
    /\ backpack' = r.backpack
    /\ pre' = Inv
    /\ call' = [op |-> op, slot |-> slot, item |-> item, count |-> count, err |-> r.err]
    /\ trip' = Trip(op, item, count)
    /\ UNCHANGED <<charVars, mod, upd, mv, loop>>

Equip(slot, item) ==
    /\ slot \in SlotArgs /\ item \in Items
    /\ Called("equip", slot, item, 1, equip(Inv, slot, item))

Unequip(slot) ==
    /\ slot \in SlotArgs
    /\ Called("unequip", slot, None, 1, unequip(Inv, slot))

Add(item, count) ==
    /\ item \in Items /\ count \in CountArgs
    /\ Held(Inv) + count <= MaxUnits
    /\ Called("add", None, item, count, add(Inv, item, count))

Remove(item, count) ==
    /\ item \in Items /\ count \in CountArgs
    /\ Called("remove", None, item, count, remove(Inv, item, count))

Use(item) ==
    /\ item \in Items
    /\ Called("use", None, item, 1, use(Inv, item))

\* the inventory calls involve no character: a bare Character("Idris")
TestChar == Character([name |-> "Idris"])

NoAttack == DamageInstance(0, "none", <<>>)

\* the parts of the state a specification does not use stay at these values
NoMod == [sheets |-> <<>>, sheet |-> Unset]
NoUpd == [called |-> FALSE, err |-> "ok", stats |-> Unset]
NoMv == [kind |-> "none", a |-> 0, b |-> 0, step |-> 0, from |-> 0,
         applied |-> FALSE, tick |-> FALSE]
NoLoop == [pc |-> "none", events |-> <<>>, frame_count |-> 0, last |-> None]

InvIdle ==
    /\ equipment = Inventory_new.equipment
    /\ backpack = Inventory_new.backpack
    /\ pre = Inventory_new
    /\ call = NoCall
    /\ trip = NoTrip

CharIdle ==
    /\ char = TestChar
    /\ old_char = TestChar
    /\ attack = NoAttack
    /\ dealt = 0

Init ==
    /\ equipment = Inventory_new.equipment
    /\ backpack = Inventory_new.backpack
    /\ pre = Inventory_new
    /\ call = NoCall
    /\ trip = NoTrip
    /\ char = TestChar
    /\ old_char = TestChar
    /\ attack = NoAttack
    /\ dealt = 0
    /\ mod = NoMod /\ upd = NoUpd /\ mv = NoMv /\ loop = NoLoop

Next ==
    \/ \E s \in SlotArgs, i \in Items : Equip(s, i)
    \/ \E s \in SlotArgs : Unequip(s)
    \/ \E i \in Items, n \in CountArgs : Add(i, n)
    \/ \E i \in Items, n \in CountArgs : Remove(i, n)
    \/ \E i \in Items : Use(i)

Spec == Init /\ [][Next]_vars

----------------------------------------------------------------------------
(* Combat: the game loop creates a character with Character.new and        *)
(* replaces its snapshot by the one each hit returns.                      *)

MaxHealths == -1 .. MaxMaxHealth

\* damage values, in halves: -MaxDamage, ..., -0.5, 0, 0.5, ..., MaxDamage
Damages == (-2 * MaxDamage) .. (2 * MaxDamage)

Hit(damage) ==
    LET atk == DamageInstance(damage, "physical", <<>>)
        r == hit(char, atk)
    IN  /\ char' = r.character
        /\ old_char' = char
        /\ attack' = atk
        /\ dealt' = r.damage_taken
        /\ UNCHANGED <<invVars, mod, upd, mv, loop>>

InitHit ==
    /\ equipment = Inventory_new.equipment
    /\ backpack = Inventory_new.backpack
    /\ pre = Inventory_new
    /\ call = NoCall
    /\ trip = NoTrip
    /\ \E m \in MaxHealths :
           char = Character_new("John Halo", <<>>, TRUE, StatsOf(m), <<>>, <<>>)
    /\ old_char = char
    /\ attack = NoAttack
    /\ dealt = 0
    /\ mod = NoMod /\ upd = NoUpd /\ mv = NoMv /\ loop = NoLoop

NextHit == \E d \in Damages : Hit(d)

SpecHit == InitHit /\ [][NextHit]_vars

----------------------------------------------------------------------------
(* Stats.modify: a sheet is made from an existing one by a chain of modify *)
(* calls.  mod.sheets holds the first sheet and the changes applied to it, *)
(* mod.sheet the current result.                                           *)

\* a field of a sheet: None or a number (0 is a number, not "no change")
StatValues == {Unset} \cup {Val(v) : v \in 0 .. MaxStat}

\* Stats(...) with max_health h, armor a and the six other fields all rest
SheetOf(h, a, rest) ==
    [f \in StatFields |-> IF f = "max_health" THEN h
                          ELSE IF f = "armor" THEN a ELSE rest]

\* the sheets the checks draw from
Sheets == {SheetOf(h, a, rest) : h \in StatValues, a \in StatValues,
                                 rest \in {Unset, Val(MaxStat)}}

\* modify that tests "if not new" instead of "if new is None": 0 is no change
Stats_modify_Truthy(self, changes) ==
    [f \in StatFields |->
        IF changes[f] = Unset \/ changes[f] = Val(0) THEN self[f] ELSE changes[f]]

\* modify with the operands swapped: a field of self that is set is kept
Stats_modify_KeepSelf(self, changes) ==
    [f \in StatFields |-> IF self[f] = Unset THEN changes[f] ELSE self[f]]

Stats_modify(self, changes) ==
    [f \in StatFields |-> IF changes[f] = Unset THEN self[f] ELSE changes[f]]

Modify(changes) ==
    /\ Len(mod.sheets) < 3
    /\ mod' = [sheets |-> Append(mod.sheets, changes),
               sheet |-> Stats_modify(mod.sheet, changes)]
    /\ UNCHANGED <<invVars, charVars, upd, mv, loop>>

InitModify ==
    /\ InvIdle /\ CharIdle
    /\ \E s \in Sheets : mod = [sheets |-> <<s>>, sheet |-> s]
    /\ upd = NoUpd /\ mv = NoMv /\ loop = NoLoop

NextModify == \E c \in Sheets : Modify(c)

SpecModify == InitModify /\ [][NextModify]_vars

----------------------------------------------------------------------------
(* Character.update_stats, called on a character whose bonuses mapping     *)
(* holds the Stats deltas of some bonus sources.                           *)

\* ids of bonus sources (Item.uuid)
UUIDs == {"uuid1", "uuid2"}

\* the bonuses mappings the checks draw from: dict[UUID: Stats]
BonusMaps == UNION {[ids -> Sheets] : ids \in SUBSET UUIDs}

\* Python's + on two fields: a TypeError when either is None
Plus(x, y) == IF x = Unset \/ y = Unset THEN Unset ELSE Val(Get(x) + Get(y))

\* stat after "for bonus in bonuses.values(): stat += bonus[f]"; Unset stands
\* for the TypeError of adding None
RECURSIVE Accumulate(_, _, _, _)
Accumulate(stat, bonuses, ids, f) ==
    IF ids = {} THEN stat
    ELSE LET id == CHOOSE x \in ids : TRUE
         IN  Accumulate(Plus(stat, bonuses[id][f]), bonuses, ids \ {id}, f)

update_stats(self) ==
    IF "BASE" \notin CharFields
    THEN [err |-> "AttributeError", stats |-> Unset]
    ELSE LET BASE == Get(self["BASE"])
             bonuses == Get(self.bonuses)
             new_stats == [f \in StatFields |->
                              Accumulate(BASE[f], bonuses, DOMAIN bonuses, f)]
         IN  IF \E f \in StatFields : new_stats[f] = Unset /\ DOMAIN bonuses # {}
             THEN [err |-> "TypeError", stats |-> Unset]
             ELSE [err |-> "ok", stats |-> Val(new_stats)]

UpdateStats ==
    /\ LET r == update_stats(char)
       IN  upd' = [called |-> TRUE, err |-> r.err, stats |-> r.stats]
    /\ UNCHANGED <<invVars, charVars, mod, mv, loop>>

InitUpdate ==
    /\ InvIdle
    /\ \E base \in Sheets, bonuses \in BonusMaps :
          char = [Character_new("John Halo", <<>>, TRUE, base, <<>>, <<>>)
                    EXCEPT !.bonuses = Val(bonuses)]
    /\ old_char = char
    /\ attack = NoAttack
    /\ dealt = 0
    /\ mod = NoMod /\ upd = NoUpd /\ mv = NoMv /\ loop = NoLoop

NextUpdate == UpdateStats

SpecUpdate == InitUpdate /\ [][NextUpdate]_vars

----------------------------------------------------------------------------
(* move_toward(a, b, step), applied again and again to its own result.     *)
(* The arguments are int | float.  An int is itself and int arithmetic is  *)
(* exact.  A float is a double in [1, 2) given by its offset from 1.0 in   *)
(* quarters of the spacing of doubles there: a double is a multiple of 4,  *)
(* and a sum is rounded to the nearest double, a tie going to the one with *)
(* the even mantissa (the multiple of 8).  Steps are small doubles, so     *)
(* every number of quarters is a step.                                     *)

Min(x, y) == IF x <= y THEN x ELSE y
Max(x, y) == IF x >= y THEN x ELSE y

\* round to nearest double, ties to even
Round(x) ==
    LET r == x % 4
        below == x - r
    IN  IF r = 0 THEN x
        ELSE IF r < 2 THEN below
        ELSE IF r > 2 THEN below + 4
        ELSE IF below % 8 = 0 THEN below ELSE below + 4

\* a + step and a - step as Python computes them for the kind of number used
plus(x, y) == IF mv.kind = "float" THEN Round(x + y) ELSE x + y
minus(x, y) == IF mv.kind = "float" THEN Round(x - y) ELSE x - y

\* move_toward without min / max: it may step over b
move_toward_NoClamp(a, b, step) ==
    IF b >= a THEN plus(a, step) ELSE minus(a, step)

move_toward(a, b, step) ==
    IF b >= a THEN Min(plus(a, step), b) ELSE Max(minus(a, step), b)

\* values and targets: ints, and doubles far enough above 1.0 for a - step
\* to stay in [1, 2)
IntPoints == 0 .. MaxDist
FloatPoints == {4 * k : k \in MaxStep .. MaxStep + MaxDist}

\* steps; -1 is outside what the function is meant for
Steps == -1 .. MaxStep

\* a negative step moves away from b without end: stop following it once
\* the value is farther from b than any start is
InRange == (IF mv.a >= mv.b THEN mv.a - mv.b ELSE mv.b - mv.a) <= 4 * MaxDist

Move ==
    /\ mv.kind # "none"
    /\ InRange
    /\ mv' = [mv EXCEPT !.a = move_toward(mv.a, mv.b, mv.step),
                        !.from = mv.a,
                        !.applied = TRUE,
                        !.tick = ~mv.tick]
    /\ UNCHANGED <<invVars, charVars, mod, upd, loop>>

InitMove ==
    /\ InvIdle /\ CharIdle
    /\ mod = NoMod /\ upd = NoUpd /\ loop = NoLoop
    /\ \E kind \in {"int", "float"}, step \in Steps :
          \E a \in IF kind = "int" THEN IntPoints ELSE FloatPoints,
             b \in IF kind = "int" THEN IntPoints ELSE FloatPoints :
                mv = [kind |-> kind, a |-> a, b |-> b, step |-> step, from |-> a,
                      applied |-> FALSE, tick |-> FALSE]

NextMove == Move

\* the caller keeps applying move_toward
SpecMove == InitMove /\ [][NextMove]_vars /\ WF_vars(Move)

----------------------------------------------------------------------------
(* The main loop of main.py: "while 1", each pass a frame: the frame       *)
(* calculations, then a for loop over the events cuinter.process() gave.   *)
(* loop.pc is "frame" at the top of the while loop, "events" in the for    *)
(* loop and "exited" after the while loop.                                 *)

\* key values the loop tests for, and one it does not
Keys == {"KEY_UP", "w", "q", "x"}

\* what cuinter.process() may return: a dict, so each event type at most
\* once, in any order
KeyEvents == {[event_type |-> "key", value |-> k] : k \in Keys}
OtherEvent == [event_type |-> "mouse", value |-> "click"]
EventDicts ==
    {<<>>, <<OtherEvent>>}
    \cup {<<e>> : e \in KeyEvents}
    \cup {<<e, OtherEvent>> : e \in KeyEvents}
    \cup {<<OtherEvent, e>> : e \in KeyEvents}

\* the body of the for loop: "break" on the key q, otherwise nothing
handle(event) ==
    IF event.event_type = "key" /\ event.value = "q" THEN "break" ELSE "pass"

\* break taken for an exit of the while loop
Break_While(l) == [l EXCEPT !.pc = "exited", !.events = <<>>, !.last = "break"]

\* break leaves the for loop, the innermost one; the while loop goes on
Break(l) == [l EXCEPT !.pc = "frame", !.events = <<>>, !.last = "break"]

\* frame calculations and cuinter.process(); elapsed: a second has passed
\* since the last FPS update
Frame(elapsed, events) ==
    /\ loop.pc = "frame"
    /\ elapsed \/ loop.frame_count < MaxFrames
    /\ loop' = [loop EXCEPT !.frame_count = IF elapsed THEN 0 ELSE @ + 1,
                            !.events = events,
                            !.pc = "events"]
    /\ UNCHANGED <<invVars, charVars, mod, upd, mv>>

\* one pass of the for loop
Event ==
    /\ loop.pc = "events"
    /\ loop.events # <<>>
    /\ loop' = IF handle(Head(loop.events)) = "break"
               THEN Break(loop)
               ELSE [loop EXCEPT !.events = Tail(@), !.last = "pass"]
    /\ UNCHANGED <<invVars, charVars, mod, upd, mv>>

\* the for loop is exhausted: back to the top of the while loop
EndFrame ==
    /\ loop.pc = "events"
    /\ loop.events = <<>>
    /\ loop' = [loop EXCEPT !.pc = "frame"]
    /\ UNCHANGED <<invVars, charVars, mod, upd, mv>>

InitLoop ==
    /\ InvIdle /\ CharIdle
    /\ mod = NoMod /\ upd = NoUpd /\ mv = NoMv
    /\ loop = [pc |-> "frame", events |-> <<>>, frame_count |-> 0, last |-> None]

NextLoop ==
    \/ \E elapsed \in BOOLEAN, events \in EventDicts : Frame(elapsed, events)
    \/ Event
    \/ EndFrame

SpecLoop == InitLoop /\ [][NextLoop]_vars

----------------------------------------------------------------------------
(* The error kinds of the design, as the messages the code raises *)

InvalidOperation == {"NotEquippable", "NoSuchSlot"}
EmptySlot == {"SlotEmpty"}
InsufficientQuantity == {"NotEnough", "NotAny"}

Failed == call.err # "ok"
Unchanged == equipment = pre.equipment /\ backpack = pre.backpack
Equippable(item) == "equippable" \in tags[item]

----------------------------------------------------------------------------
(* Inventory claims, checked under Spec *)

\* C1: a failing equip, unequip or remove leaves equipment and backpack as
\* they were before the call.
C1_NoPartialMutation ==
    (call.op \in {"equip", "unequip", "remove"} /\ Failed) => Unchanged

\* C2: equip(slot, item) with a valid slot, an equippable item and zero units
\* of item in the backpack fails with the insufficient-quantity error,
\* whatever the slot holds.
C2_EquipZeroFails ==
    (/\ call.op = "equip"
     /\ call.slot \in slots
     /\ Equippable(call.item)
     /\ pre.backpack[call.item] = 0)
    => call.err \in InsufficientQuantity

\* the case of C3: slot holds A, the backpack holds a unit of an equippable
\* B # A, and equip(slot, B) was called
HotSwapCase ==
    /\ call.op = "equip"
    /\ call.slot \in slots
    /\ Equippable(call.item)
    /\ pre.equipment[call.slot] # None
    /\ pre.equipment[call.slot] # call.item
    /\ pre.backpack[call.item] >= 1

\* C3: hot swap: equip(slot, B) on a slot holding A # B, with a unit of B in
\* the backpack, succeeds; the slot then holds B, the backpack has one more A
\* and one less B, and nothing else changed.
C3_HotSwap ==
    HotSwapCase =>
        LET A == pre.equipment[call.slot]
            B == call.item
        IN  /\ call.err = "ok"
            /\ equipment = [pre.equipment EXCEPT ![call.slot] = B]
            /\ backpack = [pre.backpack EXCEPT ![A] = @ + 1, ![B] = @ - 1]

C3_Witness == HotSwapCase /\ call.err = "ok" /\ equipment[call.slot] = call.item

\* C4: unit conservation: no equip and no unequip call, succeeding or failing,
\* changes the number of units of any item (backpack count plus slots
\* holding it).
C4_Conservation ==
    call.op \in {"equip", "unequip"} =>
        \A i \in Items : Units(Inv, i) = Units(pre, i)

\* an equip that raised after its implicit unequip had acted
C4_Witness == call.op = "equip" /\ Failed /\ ~Unchanged

\* C5: every backpack count is >= 0 after any sequence of calls.
C5_CountsNonNegative == \A i \in Items : backpack[i] >= 0

\* a remove refused for lack of units, on an item the backpack holds
C5_Witness ==
    /\ call.op = "remove"
    /\ call.err = "NotEnough"
    /\ backpack[call.item] >= 1

\* C6: remove(item, n), n >= 0, fails with the insufficient-quantity error
\* exactly when n exceeds the backpack count of item, leaving the backpack
\* unchanged; otherwise it lowers that count by n and changes nothing else.
C6_Remove ==
    (call.op = "remove" /\ call.count >= 0) =>
        IF call.count > pre.backpack[call.item]
        THEN call.err \in InsufficientQuantity /\ backpack = pre.backpack
        ELSE /\ call.err = "ok"
             /\ backpack = [pre.backpack EXCEPT ![call.item] = @ - call.count]
             /\ equipment = pre.equipment

\* a remove of the whole count of an item
C6_Witness ==
    /\ call.op = "remove"
    /\ call.count >= 1
    /\ call.count = pre.backpack[call.item]
    /\ call.err = "ok"
    /\ backpack[call.item] = 0

\* C7: round trip: add(item, n), n >= 0, followed by remove(item, n): the
\* remove succeeds and the inventory is again the one the add was called on.
C7_RoundTrip ==
    trip.phase = "removed" =>
        /\ call.err = "ok"
        /\ Inv = trip.start

\* a round trip of two units of an item the backpack already held
C7_Witness ==
    /\ trip.phase = "removed"
    /\ trip.count = MaxArg
    /\ call.op = "remove"
    /\ call.item = trip.item
    /\ trip.start.backpack[trip.item] >= 1

\* C8: unequip(slot) fails with an invalid-operation error on an unknown
\* slot and with an empty-slot error on an empty one, changing nothing;
\* otherwise it clears the slot and adds exactly one unit of its item to the
\* backpack.
C8_Unequip ==
    call.op = "unequip" =>
        IF call.slot \notin slots
        THEN call.err \in InvalidOperation /\ Unchanged
        ELSE IF pre.equipment[call.slot] = None
             THEN call.err \in EmptySlot /\ Unchanged
             ELSE /\ call.err = "ok"
                  /\ equipment = [pre.equipment EXCEPT ![call.slot] = None]
                  /\ backpack =
                       [pre.backpack EXCEPT ![pre.equipment[call.slot]] = @ + 1]

\* an unequip that moved an item back to a backpack already holding one
C8_Witness ==
    /\ call.op = "unequip"
    /\ call.err = "ok"
    /\ call.slot \in slots
    /\ pre.equipment[call.slot] # None
    /\ pre.backpack[pre.equipment[call.slot]] >= 1

\* C9: equip(slot, item) with an item that is not equippable or a slot that
\* does not exist fails with an invalid-operation error and changes nothing.
C9_EquipInvalid ==
    (call.op = "equip" /\ (~Equippable(call.item) \/ call.slot \notin slots)) =>
        call.err \in InvalidOperation /\ Unchanged

\* equip of a non-equippable item the backpack holds, into an occupied slot
C9_Witness ==
    /\ call.op = "equip"
    /\ ~Equippable(call.item)
    /\ call.slot \in slots
    /\ pre.equipment[call.slot] # None
    /\ pre.backpack[call.item] >= 1
    /\ call.err = "NotEquippable"

----------------------------------------------------------------------------
(* Combat claims, checked under SpecHit *)

WasHit == attack.damage_type = "physical"
Health(c) == Get(c.health)
Alive(c) == Get(c.is_alive)
MaxHealthOf(c) == Get(Get(c.current).max_health)

\* C10: clamping rule of hit, for current.max_health >= 0: with
\* h = health - damage_taken, the result has health 0 and is dead when
\* h <= 0, has health max_health and is_alive unchanged when h > max_health,
\* and has health h and is_alive unchanged otherwise.
C10_HitClamp ==
    (WasHit /\ MaxHealthOf(old_char) >= 0) =>
        LET h == Health(old_char) - dealt
        IN  IF h <= 0
            THEN Health(char) = 0 /\ Alive(char) = FALSE
            ELSE IF h > MaxHealthOf(old_char)
                 THEN /\ Health(char) = MaxHealthOf(old_char)
                      /\ Alive(char) = Alive(old_char)
                 ELSE /\ Health(char) = h
                      /\ Alive(char) = Alive(old_char)

\* damage exactly equal to the health of a living character kills it
C10_Witness ==
    /\ WasHit
    /\ MaxHealthOf(old_char) >= 0
    /\ Alive(old_char)
    /\ dealt >= 1
    /\ dealt = Health(old_char)
    /\ Health(char) = 0
    /\ ~Alive(char)

\* C11: no revival: hit on a snapshot that is not alive returns a snapshot
\* that is not alive, whatever the damage.
C11_NoRevival == (WasHit /\ ~Alive(old_char)) => ~Alive(char)

\* a dead character healed back to positive health
C11_Witness ==
    /\ WasHit
    /\ ~Alive(old_char)
    /\ dealt < 0
    /\ Health(char) > Health(old_char)
    /\ ~Alive(char)

\* C12: health bound: a character created with base max_health >= 0 and
\* changed only by hit has 0 <= health <= current.max_health.
C12_HealthBound ==
    MaxHealthOf(char) >= 0 =>
        (0 <= Health(char) /\ Health(char) <= MaxHealthOf(char))

\* a healing larger than the missing health, clamped to max_health
C12_Witness ==
    /\ WasHit
    /\ MaxHealthOf(char) >= 1
    /\ Health(old_char) - dealt > MaxHealthOf(char)
    /\ Health(old_char) < MaxHealthOf(char)
    /\ Health(char) = MaxHealthOf(char)

\* floor of a number given in halves
Floor(halves) == halves \div 2

\* C13 as stated: the damage value hit returns is floor(damage) for every
\* damage, negative non-integer damage included.
C13_Floor == WasHit => dealt = Floor(attack.damage)

\* C13, amended: the damage value hit returns is damage truncated toward zero
\* (floor for damage >= 0, ceiling for damage < 0); it is returned as is, also
\* when the clamp makes the health change smaller.
C13_Truncated ==
    WasHit =>
        IF attack.damage >= 0
        THEN 2 * dealt <= attack.damage /\ attack.damage < 2 * dealt + 2
        ELSE 2 * dealt - 2 < attack.damage /\ attack.damage <= 2 * dealt

\* a healing of 1.5 returned as -1 although the clamp let health rise less
C13_Witness ==
    /\ WasHit
    /\ attack.damage = -3
    /\ dealt = -1
    /\ Health(char) - Health(old_char) < 1

\* C14: frame of hit: the returned snapshot equals the one hit was called on
\* in every field other than health and is_alive.
C14_HitFrame ==
    WasHit => \A f \in CharFields \ {"health", "is_alive"} : char[f] = old_char[f]

\* a killing hit: health 0 and is_alive False are set, the rest is kept
C14_Witness ==
    /\ WasHit
    /\ Alive(old_char)
    /\ Health(old_char) >= 1
    /\ Health(char) = 0
    /\ ~Alive(char)
    /\ char.name = old_char.name
    /\ char.inventory = old_char.inventory

----------------------------------------------------------------------------
(* Stats claims: C15 under SpecUpdate, C16 and C17 under SpecModify *)

\* a bonus field that is unset counts as zero
OrZero(field) == IF field = Unset THEN 0 ELSE Get(field)

\* C15: update_stats raises no error and returns a sheet whose every field
\* is the base field plus the sum of that field over all bonuses, an unset
\* bonus field counting as zero.
C15_UpdateStats ==
    upd.called =>
        /\ upd.err = "ok"
        /\ LET base == Get(char.base)
               bonuses == Get(char.bonuses)
           IN  \A f \in StatFields :
                  Get(upd.stats)[f] =
                     Val(Get(base[f])
                         + Sum([id \in DOMAIN bonuses |-> OrZero(bonuses[id][f])],
                               DOMAIN bonuses))

\* C16: s.modify(c): every field is the field of c when that is set and the
\* field of s when it is not; with every field of c unset the result is s.
C16_ModifyOverride ==
    Len(mod.sheets) = 2 =>
        LET s == mod.sheets[1]
            c == mod.sheets[2]
        IN  /\ \A f \in StatFields :
                  /\ c[f] # Unset => mod.sheet[f] = c[f]
                  /\ c[f] = Unset => mod.sheet[f] = s[f]
            /\ (\A f \in StatFields : c[f] = Unset) => mod.sheet = s

\* a change to 0 of a field that was set, another field passed through
C16_Witness ==
    /\ Len(mod.sheets) = 2
    /\ mod.sheets[1]["max_health"] = Val(MaxStat)
    /\ mod.sheets[2]["max_health"] = Val(0)
    /\ mod.sheets[1]["armor"] # Unset
    /\ mod.sheets[2]["armor"] = Unset
    /\ mod.sheet["max_health"] = Val(0)

\* the last set value of a field in the order a, b, c (None when none is set)
LastSet(a, b, c, f) ==
    IF c[f] # Unset THEN c[f] ELSE IF b[f] # Unset THEN b[f] ELSE a[f]

\* C17: a.modify(b).modify(c) equals a.modify(b.modify(c)), and is per field
\* the last set value in the order a, b, c.
C17_ModifyAssociative ==
    Len(mod.sheets) = 3 =>
        LET a == mod.sheets[1]
            b == mod.sheets[2]
            c == mod.sheets[3]
        IN  /\ mod.sheet = Stats_modify(a, Stats_modify(b, c))
            /\ \A f \in StatFields : mod.sheet[f] = LastSet(a, b, c, f)

\* a chain in which b sets a field that a set differently and c leaves it
C17_Witness ==
    /\ Len(mod.sheets) = 3
    /\ mod.sheets[1]["armor"] = Val(MaxStat)
    /\ mod.sheets[2]["armor"] = Val(0)
    /\ mod.sheets[3]["armor"] = Unset
    /\ mod.sheets[3]["max_health"] # Unset
    /\ mod.sheet["armor"] = Val(0)

----------------------------------------------------------------------------
(* move_toward claim, checked under SpecMove *)

Dist(x, y) == IF x >= y THEN x - y ELSE y - x

\* with step >= 0 the result lies between a and b and is no farther from b
NoOvershoot ==
    (mv.applied /\ mv.step >= 0) =>
        /\ Min(mv.from, mv.b) <= mv.a
        /\ mv.a <= Max(mv.from, mv.b)
        /\ Dist(mv.a, mv.b) <= Dist(mv.from, mv.b)

\* with step > 0, b is a fixed point
FixedPoint == (mv.applied /\ mv.step > 0 /\ mv.from = mv.b) => mv.a = mv.b

\* C18 as stated: no overshoot for step >= 0; with step > 0, b is a fixed
\* point and repeated application from any a reaches b.
C18_Original ==
    /\ []NoOvershoot
    /\ []FixedPoint
    /\ (mv.step > 0) ~> (mv.a = mv.b)

\* C18, amended: no overshoot for step >= 0 and b a fixed point for step > 0,
\* for ints and floats; with int arguments and step > 0, repeated application
\* from any a reaches b.
C18_MoveToward ==
    /\ []NoOvershoot
    /\ []FixedPoint
    /\ (mv.step > 0 /\ mv.kind = "int") ~> (mv.a = mv.b)

\* a last int step shorter than step: the result is b, not beyond it
C18_Witness ==
    /\ mv.kind = "int"
    /\ mv.applied
    /\ mv.step > 0
    /\ mv.from # mv.b
    /\ Dist(mv.from, mv.b) < mv.step
    /\ mv.a = mv.b

----------------------------------------------------------------------------
(* Main loop claim, checked under SpecLoop *)

\* C20: the main loop has no exit: the key q only ends the for loop over the
\* frame's events, and the while loop goes on with the next frame.
C20_NoExit ==
    /\ loop.pc # "exited"
    /\ loop.pc = "frame" => ENABLED NextLoop

\* a frame started after the key q was handled, with events of its own
C20_Witness ==
    /\ loop.last = "break"
    /\ loop.pc = "events"
    /\ loop.events # <<>>

====
